---- MODULE Spec2Model ----
(***************************************************************************)
(* The task / tag / task_tag backend of the task manager                   *)
(* (src/src/worker/index.ts) over its SQLite (D1) tables                   *)
(* (src/drizzle/0003_create_tags.sql and the CREATE TABLE IF NOT EXISTS    *)
(* script at src/src/worker/index.ts:256-269).                             *)
(*                                                                         *)
(* One action per route handler.  A handler runs its statements in order,  *)
(* outside any transaction: a statement the database rejects ends the      *)
(* request with status 500 and keeps the effects of the statements before  *)
(* it.                                                                     *)
(***************************************************************************)
EXTENDS Integers, Sequences, FiniteSets, TLC

VARIABLES
    fk,        \* foreign-key regime of the database (fixed for a behaviour)
    task,      \* table task: sequence of rows, in insertion order
    tag,       \* table tag: sequence of rows, in insertion order
    taskTag,   \* table task_tag: sequence of rows, in insertion order
    nextTask,  \* number of task ids generated so far
    nextTag,   \* number of tag ids generated so far
    clock,     \* the current reading of new Date()
    req,       \* the last request handled
    resp,      \* the response to it
    proc,      \* the requests in flight whose statements run one by one
    dataTable,      \* the DataTable component of the browser
    tagsSelector,   \* the tag checkboxes of the create form and of the edit drawer
    themeProvider   \* the ThemeProvider component, the document root and localStorage

vars == <<fk, task, tag, taskTag, nextTask, nextTag, clock, req, resp, proc,
          dataTable, tagsSelector, themeProvider>>
client == <<dataTable, tagsSelector, themeProvider>>
db == <<fk, task, tag, taskTag, nextTask, nextTag, clock>>

(***************************************************************************)
(* Bounds of the model.                                                    *)
(***************************************************************************)
MaxTasks == 2   \* task ids ever generated
MaxTags == 2    \* tag ids ever generated
MaxLen == 2     \* length of a tags list in a request body
MaxClock == 1   \* readings of the clock after the first
MaxFetches == 2   \* results of the tasks query of the table
MaxSelected == 3  \* length of a selection of tag checkboxes

(***************************************************************************)
(* Values.                                                                 *)
(***************************************************************************)
Users == {"A", "B"}
NoSession == "no session"      \* getSession yields null
Absent == "<undefined>"        \* a field the JSON body does not have
Null == "<null>"               \* SQL NULL / JSON null

taskStatusEnum == {"todo", "in_progress", "completed"}
taskPriorityEnum == {"low", "medium", "high"}

\* crypto.randomUUID(): the n-th id generated for a table; never repeats.
randomUUID(prefix, n) == prefix \o ToString(n)

TaskIdsUpTo(n) == {randomUUID("k", i) : i \in 1..n}
TagIdsUpTo(n) == {randomUUID("t", i) : i \in 1..n}
GhostTask == "k?"              \* a task id no row ever has
GhostTag == "t?"               \* a tag id no row ever has

\* The foreign keys of task_tag.  drizzle/0003_create_tags.sql declares them
\* ON DELETE NO ACTION, the CREATE TABLE IF NOT EXISTS script declares them
\* ON DELETE cascade, and nothing in the source sets whether the database
\* enforces foreign keys at all: the regime is fixed per behaviour, and every
\* property is checked under the three of them.
FkModes == {"off", "no action", "cascade"}

(***************************************************************************)
(* Sequence helpers (Array.prototype.map / SQL WHERE).                     *)
(***************************************************************************)
Range(s) == {s[i] : i \in 1..Len(s)}

RECURSIVE SeqsUpTo(_, _)
SeqsUpTo(S, n) ==
    IF n = 0 THEN {<<>>}
    ELSE LET shorter == SeqsUpTo(S, n - 1)
         IN shorter \cup {Append(s, x) : s \in {t \in shorter : Len(t) = n - 1}, x \in S}

RECURSIVE Concat(_)
Concat(ss) == IF ss = <<>> THEN <<>> ELSE Head(ss) \o Concat(Tail(ss))

(***************************************************************************)
(* Requests and responses.                                                 *)
(***************************************************************************)
NoBody ==
    [title |-> Absent, description |-> Absent, status |-> Absent,
     priority |-> Absent, hasTags |-> FALSE, tags |-> <<>>, name |-> Absent]

TaskBody(title, description, status, priority, hasTags, tags) ==
    [title |-> title, description |-> description, status |-> status,
     priority |-> priority, hasTags |-> hasTags, tags |-> tags, name |-> Absent]

TagBody(name) == [NoBody EXCEPT !.name = name]

Request(op, session, id, filter, body) ==
    [op |-> op, session |-> session, id |-> id, filter |-> filter, body |-> body]

NoRequest == Request("none", NoSession, Absent, Absent, NoBody)

\* c.json(...): status, the top-level key of the body, and what it holds.
Response(status, kind, tasks, tags) ==
    [status |-> status, kind |-> kind, tasks |-> tasks, tags |-> tags]

ErrorResponse(status) == Response(status, "error", <<>>, <<>>)
NoResponse == Response(0, "none", <<>>, <<>>)

\* A task object of a response: the row, and its tags array when it has one.
TaskView(row, hasTags, tags) == [row |-> row, hasTags |-> hasTags, tags |-> tags]


(***************************************************************************)
(* Collaborators at the boundary.                                          *)
(***************************************************************************)
\* getAuthUser falling back to a fixed user when there is no session.
getAuthUserOrDefault(session) == IF session \in Users THEN session ELSE "A"

\* getAuthUser: session?.user ?? null.  A session is given by its user.
getAuthUser(session) == IF session \in Users THEN session ELSE Null

\* createTaskSchema without .default("todo") and .default("medium").
createTaskSchemaNoDefaults(body) ==
    [success |-> /\ body.title \notin {Absent, ""}
                 /\ body.status \in taskStatusEnum \cup {Absent}
                 /\ body.priority \in taskPriorityEnum \cup {Absent},
     data |-> body]

\* zValidator("json", createTaskSchema): safeParse of the body.
createTaskSchema(body) ==
    [success |-> /\ body.title \notin {Absent, ""}
                 /\ body.status \in taskStatusEnum \cup {Absent}
                 /\ body.priority \in taskPriorityEnum \cup {Absent},
     data |-> [body EXCEPT
                 !.status = IF body.status = Absent THEN "todo" ELSE body.status,
                 !.priority = IF body.priority = Absent THEN "medium" ELSE body.priority]]

\* updateTaskSchema without min(1) on title.
updateTaskSchemaAnyTitle(body) ==
    [success |-> /\ body.status \in taskStatusEnum \cup {Absent}
                 /\ body.priority \in taskPriorityEnum \cup {Absent},
     data |-> body]

\* zValidator("json", updateTaskSchema)
updateTaskSchema(body) ==
    [success |-> /\ body.title # ""
                 /\ body.status \in taskStatusEnum \cup {Absent}
                 /\ body.priority \in taskPriorityEnum \cup {Absent},
     data |-> body]

\* zValidator("json", z.object({ name: z.string().min(1) }))
createTagSchema(body) ==
    [success |-> body.name \notin {Absent, ""}, data |-> body]

(***************************************************************************)
(* SQL statements, as functions of the tables.                             *)
(***************************************************************************)
\* SelectOwnedTask without the owner condition.
SelectTaskAnyOwner(taskT, id, userId) == SelectSeq(taskT, LAMBDA r : r.id = id)

\* select().from(task).where(and(eq(task.id, id), eq(task.userId, userId)))
SelectOwnedTask(taskT, id, userId) ==
    SelectSeq(taskT, LAMBDA r : r.id = id /\ r.userId = userId)

\* select().from(task).where(eq(task.userId, userId))
SelectTasksOf(taskT, userId) == SelectSeq(taskT, LAMBDA r : r.userId = userId)

\* SelectTaskById without its where condition, the first row taken.
SelectFirstTask(taskT, id) == IF taskT = <<>> THEN <<>> ELSE <<taskT[1]>>

\* select().from(task).where(eq(task.id, id))
SelectTaskById(taskT, id) == SelectSeq(taskT, LAMBDA r : r.id = id)

\* SelectTagsOf without the owner condition.
SelectAllTags(tagT, userId) == tagT

\* select().from(tag).where(eq(tag.userId, userId))
SelectTagsOf(tagT, userId) == SelectSeq(tagT, LAMBDA g : g.userId = userId)

\* SelectTasksByTag without the owner condition.
SelectTasksByTagAnyOwner(taskT, taskTagT, userId, tagFilter) ==
    Concat([i \in 1..Len(taskT) |->
        Concat([j \in 1..Len(taskTagT) |->
            IF taskTagT[j].taskId = taskT[i].id /\ taskTagT[j].tagId = tagFilter
            THEN <<taskT[i]>> ELSE <<>>])])

\* select().from(task).innerJoin(taskTag, eq(task.id, taskTag.taskId))
\*   .where(and(eq(task.userId, userId), eq(taskTag.tagId, tagFilter)))
\* mapped to the task of each joined row: one row per matching task_tag row.
SelectTasksByTag(taskT, taskTagT, userId, tagFilter) ==
    Concat([i \in 1..Len(taskT) |->
        IF taskT[i].userId = userId
        THEN Concat([j \in 1..Len(taskTagT) |->
                 IF taskTagT[j].taskId = taskT[i].id /\ taskTagT[j].tagId = tagFilter
                 THEN <<taskT[i]>> ELSE <<>>])
        ELSE <<>>])

\* tagsForTask with the joined rows in the order of table tag.
tagsForTaskInTagOrder(taskTagT, tagT, taskId) ==
    Concat([k \in 1..Len(tagT) |->
        Concat([j \in 1..Len(taskTagT) |->
            IF taskTagT[j].taskId = taskId /\ tagT[k].id = taskTagT[j].tagId
            THEN <<[id |-> tagT[k].id, name |-> tagT[k].name]>> ELSE <<>>])])

\* select().from(taskTag).innerJoin(tag, eq(taskTag.tagId, tag.id))
\*   .where(eq(taskTag.taskId, taskId)), each joined row mapped to {id, name}
\* of its tag.
tagsForTask(taskTagT, tagT, taskId) ==
    Concat([j \in 1..Len(taskTagT) |->
        IF taskTagT[j].taskId = taskId
        THEN Concat([k \in 1..Len(tagT) |->
                 IF tagT[k].id = taskTagT[j].tagId
                 THEN <<[id |-> tagT[k].id, name |-> tagT[k].name]>> ELSE <<>>])
        ELSE <<>>])

\* tasks.map(async (t) => ({ ...t, tags: tagsForTask }))
tasksWithTags(tasks, taskTagT, tagT) ==
    [i \in 1..Len(tasks) |->
        TaskView(tasks[i], TRUE, tagsForTask(taskTagT, tagT, tasks[i].id))]

\* A database that accepts every insert into task_tag.
TaskTagInsertAlwaysAccepted(mode, taskT, tagT, taskId, tagId) == TRUE

\* Whether the database accepts insert(taskTag).values({ taskId, tagId }):
\* both columns REFERENCE their table; no UNIQUE constraint on the pair.
TaskTagInsertAccepted(mode, taskT, tagT, taskId, tagId) ==
    mode # "off" =>
        /\ \E i \in 1..Len(taskT) : taskT[i].id = taskId
        /\ \E k \in 1..Len(tagT) : tagT[k].id = tagId

\* An insert into task_tag that stores nothing.
InsertNoTaskTag(taskTagT, taskId, tagId) == taskTagT

\* insert(taskTag).values({ taskId, tagId }), accepted: one more row.
InsertTaskTag(taskTagT, taskId, tagId) ==
    Append(taskTagT, [taskId |-> taskId, tagId |-> tagId])

\* for (const tagId of tags) await db.insert(taskTag).values({ taskId, tagId })
\* The loop stops at the first rejected insert; earlier rows stay.
RECURSIVE InsertTaskTags(_, _, _, _, _, _)
InsertTaskTags(mode, taskT, tagT, taskTagT, taskId, tags) ==
    IF tags = <<>> THEN [rows |-> taskTagT, ok |-> TRUE]
    ELSE IF ~TaskTagInsertAccepted(mode, taskT, tagT, taskId, Head(tags))
         THEN [rows |-> taskTagT, ok |-> FALSE]
         ELSE InsertTaskTags(mode, taskT, tagT,
                             InsertTaskTag(taskTagT, taskId, Head(tags)),
                             taskId, Tail(tags))

\* The delete statement of PATCH removing nothing.
DeleteNoTaskTags(taskTagT, taskId) == taskTagT

\* delete(taskTag).where(eq(taskTag.taskId, taskId))
DeleteTaskTags(taskTagT, taskId) == SelectSeq(taskTagT, LAMBDA r : r.taskId # taskId)

\* delete(task).where(eq(task.id, taskId)) under the foreign key
\* task_tag.task_id -> task.id: rejected (NO ACTION, enforced), cascading
\* (ON DELETE cascade, enforced) or unchecked (foreign keys not enforced).
DeleteTaskRow(mode, taskT, taskTagT, taskId) ==
    LET referenced == \E j \in 1..Len(taskTagT) : taskTagT[j].taskId = taskId
        without == SelectSeq(taskT, LAMBDA r : r.id # taskId)
    IN  IF mode = "no action" /\ referenced
        THEN [task |-> taskT, taskTag |-> taskTagT, ok |-> FALSE]
        ELSE IF mode = "cascade"
        THEN [task |-> without, taskTag |-> DeleteTaskTags(taskTagT, taskId), ok |-> TRUE]
        ELSE [task |-> without, taskTag |-> taskTagT, ok |-> TRUE]

\* InsertTag replacing the caller's row of the same name.
InsertOrReplaceTag(tagT, newTag) ==
    Append(SelectSeq(tagT, LAMBDA g : ~(g.userId = newTag.userId /\ g.name = newTag.name)),
           newTag)

\* insert(tag).values(newTag)
InsertTag(tagT, newTag) == Append(tagT, newTag)

\* UpdateTask refreshing updatedAt only when the body supplies a field.
UpdateTaskWhenFieldsGiven(taskT, taskId, body, now) ==
    [i \in 1..Len(taskT) |->
        IF taskT[i].id = taskId
        THEN [taskT[i] EXCEPT
                !.updatedAt = IF \/ body.title # Absent \/ body.description # Absent
                                 \/ body.status # Absent \/ body.priority # Absent
                              THEN now ELSE @,
                !.title = IF body.title # Absent THEN body.title ELSE @,
                !.description = IF body.description # Absent THEN body.description ELSE @,
                !.status = IF body.status # Absent THEN body.status ELSE @,
                !.priority = IF body.priority # Absent THEN body.priority ELSE @]
        ELSE taskT[i]]

\* UpdateTask without its where condition.
UpdateEveryTask(taskT, taskId, body, now) ==
    [i \in 1..Len(taskT) |->
        [taskT[i] EXCEPT
            !.updatedAt = now,
            !.title = IF body.title # Absent THEN body.title ELSE @,
            !.description = IF body.description # Absent THEN body.description ELSE @,
            !.status = IF body.status # Absent THEN body.status ELSE @,
            !.priority = IF body.priority # Absent THEN body.priority ELSE @]]

\* update(task).set(updateData).where(eq(task.id, taskId))
UpdateTask(taskT, taskId, body, now) ==
    [i \in 1..Len(taskT) |->
        IF taskT[i].id = taskId
        THEN [taskT[i] EXCEPT
                !.updatedAt = now,
                !.title = IF body.title # Absent THEN body.title ELSE @,
                !.description = IF body.description # Absent THEN body.description ELSE @,
                !.status = IF body.status # Absent THEN body.status ELSE @,
                !.priority = IF body.priority # Absent THEN body.priority ELSE @]
        ELSE taskT[i]]


\* POST /tasks: if (body.tags && Array.isArray(body.tags) && body.tags.length)
\*   for (const tagId of body.tags) insert
AttachTags(mode, taskT, tagT, taskTagT, taskId, data) ==
    IF data.hasTags /\ Len(data.tags) > 0
    THEN InsertTaskTags(mode, taskT, tagT, taskTagT, taskId, data.tags)
    ELSE [rows |-> taskTagT, ok |-> TRUE]

\* ReplaceTags with a missing tags field read as the empty list.
ReplaceTagsDefaultEmpty(mode, taskT, tagT, taskTagT, taskId, data) ==
    InsertTaskTags(mode, taskT, tagT, DeleteTaskTags(taskTagT, taskId), taskId, data.tags)

\* ReplaceTags with an empty tags array read as a missing one.
ReplaceTagsWhenNonEmpty(mode, taskT, tagT, taskTagT, taskId, data) ==
    IF data.hasTags /\ data.tags # <<>>
    THEN InsertTaskTags(mode, taskT, tagT, DeleteTaskTags(taskTagT, taskId),
                        taskId, data.tags)
    ELSE [rows |-> taskTagT, ok |-> TRUE]

\* PATCH /tasks/:id: if (body.tags) { delete the task's rows; insert one per id }
\* (an empty array is truthy).
ReplaceTags(mode, taskT, tagT, taskTagT, taskId, data) ==
    IF data.hasTags
    THEN InsertTaskTags(mode, taskT, tagT, DeleteTaskTags(taskTagT, taskId),
                        taskId, data.tags)
    ELSE [rows |-> taskTagT, ok |-> TRUE]

(***************************************************************************)
(* The route handlers.  Each is one action: the validator middleware, the  *)
(* session lookup, the statements and the response.                        *)
(***************************************************************************)
\* The request taken and the response to it.
Handled(r, response) == req' = r /\ resp' = response /\ UNCHANGED <<proc, client>>

\* The response leaves; the worker awaits the next request.
Send ==
    /\ req # NoRequest
    /\ req' = NoRequest
    /\ resp' = NoResponse
    /\ UNCHANGED <<db, proc, client>>

\* app.get("/api/tasks")
GetTasks(session, tagFilter) ==
    LET user == getAuthUser(session)
        tasks == IF tagFilter # Absent
                 THEN SelectTasksByTag(task, taskTag, user, tagFilter)
                 ELSE SelectTasksOf(task, user)
    IN  /\ Handled(Request("GET /tasks", session, Absent, tagFilter, NoBody),
                   IF user = Null THEN ErrorResponse(401)
                   ELSE Response(200, "tasks", tasksWithTags(tasks, taskTag, tag), <<>>))
        /\ UNCHANGED db

\* app.get("/api/tasks/:id")
GetTask(session, taskId) ==
    LET user == getAuthUser(session)
        found == SelectOwnedTask(task, taskId, user)
    IN  /\ Handled(Request("GET /tasks/:id", session, taskId, Absent, NoBody),
                   IF user = Null THEN ErrorResponse(401)
                   ELSE IF found = <<>> THEN ErrorResponse(404)
                   ELSE Response(200, "task", <<TaskView(found[1], FALSE, <<>>)>>, <<>>))
        /\ UNCHANGED db

\* app.post("/api/tasks")
PostTask(session, body) ==
    LET parsed == createTaskSchema(body)
        user == getAuthUser(session)
        data == parsed.data
        now == clock
        newTask == [id |-> randomUUID("k", nextTask + 1),
                    title |-> data.title,
                    description |-> IF data.description = Absent THEN Null
                                    ELSE data.description,
                    status |-> data.status,
                    priority |-> data.priority,
                    userId |-> user,
                    createdAt |-> now,
                    updatedAt |-> now]
        task1 == Append(task, newTask)
        ins == AttachTags(fk, task1, tag, taskTag, newTask.id, data)
        r == Request("POST /tasks", session, Absent, Absent, body)
    IN  IF ~parsed.success THEN Handled(r, ErrorResponse(400)) /\ UNCHANGED db
        ELSE IF user = Null THEN Handled(r, ErrorResponse(401)) /\ UNCHANGED db
        ELSE /\ nextTask < MaxTasks
             /\ nextTask' = nextTask + 1
             /\ task' = task1
             /\ taskTag' = ins.rows
             /\ Handled(r, IF ~ins.ok THEN ErrorResponse(500)
                           ELSE Response(201, "task",
                                    <<TaskView(newTask, TRUE,
                                               tagsForTask(ins.rows, tag, newTask.id))>>,
                                    <<>>))
             /\ UNCHANGED <<fk, tag, nextTag, clock>>

\* app.patch("/api/tasks/:id")
PatchTask(session, taskId, body) ==
    LET parsed == updateTaskSchema(body)
        user == getAuthUser(session)
        existing == SelectOwnedTask(task, taskId, user)
        data == parsed.data
        task1 == UpdateTask(task, taskId, data, clock)
        ins == ReplaceTags(fk, task1, tag, taskTag, taskId, data)
        updated == SelectTaskById(task1, taskId)
        r == Request("PATCH /tasks/:id", session, taskId, Absent, body)
    IN  IF ~parsed.success THEN Handled(r, ErrorResponse(400)) /\ UNCHANGED db
        ELSE IF user = Null THEN Handled(r, ErrorResponse(401)) /\ UNCHANGED db
        ELSE IF existing = <<>> THEN Handled(r, ErrorResponse(404)) /\ UNCHANGED db
        ELSE /\ task' = task1
             /\ taskTag' = ins.rows
             /\ Handled(r, IF ~ins.ok THEN ErrorResponse(500)
                           ELSE Response(200, "task",
                                    <<TaskView(updated[1], TRUE,
                                               tagsForTask(ins.rows, tag, taskId))>>,
                                    <<>>))
             /\ UNCHANGED <<fk, tag, nextTask, nextTag, clock>>

\* app.delete("/api/tasks/:id")
DeleteTask(session, taskId) ==
    LET user == getAuthUser(session)
        existing == SelectOwnedTask(task, taskId, user)
        del == DeleteTaskRow(fk, task, taskTag, taskId)
        r == Request("DELETE /tasks/:id", session, taskId, Absent, NoBody)
    IN  IF user = Null THEN Handled(r, ErrorResponse(401)) /\ UNCHANGED db
        ELSE IF existing = <<>> THEN Handled(r, ErrorResponse(404)) /\ UNCHANGED db
        ELSE /\ task' = del.task
             /\ taskTag' = del.taskTag
             /\ Handled(r, IF ~del.ok THEN ErrorResponse(500)
                           ELSE Response(200, "message", <<>>, <<>>))
             /\ UNCHANGED <<fk, tag, nextTask, nextTag, clock>>

\* app.get("/api/tags")
GetTags(session) ==
    LET user == getAuthUser(session)
    IN  /\ Handled(Request("GET /tags", session, Absent, Absent, NoBody),
                   IF user = Null THEN ErrorResponse(401)
                   ELSE Response(200, "tags", <<>>, SelectTagsOf(tag, user)))
        /\ UNCHANGED db

\* app.post("/api/tags")
PostTag(session, body) ==
    LET parsed == createTagSchema(body)
        user == getAuthUser(session)
        newTag == [id |-> randomUUID("t", nextTag + 1), name |-> parsed.data.name,
                   userId |-> user, createdAt |-> clock]
        r == Request("POST /tags", session, Absent, Absent, body)
    IN  IF ~parsed.success THEN Handled(r, ErrorResponse(400)) /\ UNCHANGED db
        ELSE IF user = Null THEN Handled(r, ErrorResponse(401)) /\ UNCHANGED db
        ELSE /\ nextTag < MaxTags
             /\ nextTag' = nextTag + 1
             /\ tag' = InsertTag(tag, newTag)
             /\ Handled(r, Response(201, "tag", <<>>, <<newTag>>))
             /\ UNCHANGED <<fk, task, taskTag, nextTask, clock>>

(***************************************************************************)
(* PATCH /tasks/:id statement by statement.  The handler awaits each       *)
(* statement and runs in no transaction, so the statements of two requests *)
(* in flight interleave.  proc[p] is the request in flight in slot p: its  *)
(* position, its inputs, the tag ids still to insert, the row read back    *)
(* and the response.                                                       *)
(***************************************************************************)
Slots == {"p", "q"}

NoProc ==
    [pc |-> "idle", session |-> NoSession, id |-> Absent, body |-> NoBody,
     todo |-> <<>>, row |-> <<>>, resp |-> NoResponse]

NoProcs == [p \in Slots |-> NoProc]

\* The request of slot p answers and is over.
Answer(p, response) ==
    proc' = [proc EXCEPT ![p].pc = "done", ![p].resp = response]

\* The request of slot p moves to its next statement.
Goto(p, pc) == proc' = [proc EXCEPT ![p].pc = pc]

\* zValidator, getAuthUser: the request is taken.
PatchReceive(p, session, taskId, body) ==
    LET parsed == updateTaskSchema(body)
        user == getAuthUser(session)
        taken == [NoProc EXCEPT !.session = session, !.id = taskId, !.body = parsed.data]
    IN  /\ proc[p].pc = "idle"
        /\ proc' = [proc EXCEPT ![p] =
               IF ~parsed.success
               THEN [taken EXCEPT !.pc = "done", !.resp = ErrorResponse(400)]
               ELSE IF user = Null
               THEN [taken EXCEPT !.pc = "done", !.resp = ErrorResponse(401)]
               ELSE [taken EXCEPT !.pc = "select"]]
        /\ UNCHANGED <<db, req, resp, client>>

\* const [existingTask] = await db.select()...; if (!existingTask) return 404
PatchSelect(p) ==
    /\ proc[p].pc = "select"
    /\ IF SelectOwnedTask(task, proc[p].id, getAuthUser(proc[p].session)) = <<>>
       THEN Answer(p, ErrorResponse(404))
       ELSE Goto(p, "update")
    /\ UNCHANGED <<db, req, resp, client>>

\* await db.update(task).set(updateData).where(eq(task.id, taskId))
PatchUpdate(p) ==
    /\ proc[p].pc = "update"
    /\ task' = UpdateTask(task, proc[p].id, proc[p].body, clock)
    /\ Goto(p, IF proc[p].body.hasTags THEN "delete" ELSE "reselect")
    /\ UNCHANGED <<fk, tag, taskTag, nextTask, nextTag, clock, req, resp, client>>

\* if (body.tags) await db.delete(taskTag).where(eq(taskTag.taskId, taskId))
PatchDeleteTags(p) ==
    /\ proc[p].pc = "delete"
    /\ taskTag' = DeleteTaskTags(taskTag, proc[p].id)
    /\ proc' = [proc EXCEPT ![p].pc = "insert", ![p].todo = proc[p].body.tags]
    /\ UNCHANGED <<fk, task, tag, nextTask, nextTag, clock, req, resp, client>>

\* One turn of: for (const tagId of body.tags) await db.insert(taskTag)...
\* A rejected insert throws: the request answers 500.
PatchInsertTag(p) ==
    /\ proc[p].pc = "insert"
    /\ IF proc[p].todo = <<>>
       THEN Goto(p, "reselect") /\ UNCHANGED taskTag
       ELSE IF ~TaskTagInsertAccepted(fk, task, tag, proc[p].id, Head(proc[p].todo))
       THEN Answer(p, ErrorResponse(500)) /\ UNCHANGED taskTag
       ELSE /\ taskTag' = InsertTaskTag(taskTag, proc[p].id, Head(proc[p].todo))
            /\ proc' = [proc EXCEPT ![p].todo = Tail(proc[p].todo)]
    /\ UNCHANGED <<fk, task, tag, nextTask, nextTag, clock, req, resp, client>>

\* const [updatedTask] = await db.select().from(task).where(eq(task.id, taskId))
PatchReselect(p) ==
    /\ proc[p].pc = "reselect"
    /\ proc' = [proc EXCEPT ![p].pc = "tagRows",
                            ![p].row = SelectTaskById(task, proc[p].id)]
    /\ UNCHANGED <<db, req, resp, client>>

\* const tagRows = await db.select()...innerJoin...; return c.json({ task })
PatchRespond(p) ==
    /\ proc[p].pc = "tagRows"
    /\ Answer(p, Response(200, "task",
                     <<TaskView(IF proc[p].row = <<>> THEN Null ELSE proc[p].row[1],
                                TRUE, tagsForTask(taskTag, tag, proc[p].id))>>,
                     <<>>))
    /\ UNCHANGED <<db, req, resp, client>>

(***************************************************************************)
(* DELETE /tasks/:id statement by statement, in a slot of proc.            *)
(***************************************************************************)
\* getAuthUser: the request is taken.
DeleteReceive(p, session, taskId) ==
    LET taken == [NoProc EXCEPT !.session = session, !.id = taskId]
    IN  /\ proc[p].pc = "idle"
        /\ proc' = [proc EXCEPT ![p] =
               IF getAuthUser(session) = Null
               THEN [taken EXCEPT !.pc = "done", !.resp = ErrorResponse(401)]
               ELSE [taken EXCEPT !.pc = "selectToDelete"]]
        /\ UNCHANGED <<db, req, resp, client>>

\* const [existingTask] = await db.select()...; if (!existingTask) return 404
DeleteSelect(p) ==
    /\ proc[p].pc = "selectToDelete"
    /\ IF SelectOwnedTask(task, proc[p].id, getAuthUser(proc[p].session)) = <<>>
       THEN Answer(p, ErrorResponse(404))
       ELSE Goto(p, "deleteTask")
    /\ UNCHANGED <<db, req, resp, client>>

\* await db.delete(task).where(eq(task.id, taskId)); return c.json({ message })
DeleteStatement(p) ==
    LET del == DeleteTaskRow(fk, task, taskTag, proc[p].id)
    IN  /\ proc[p].pc = "deleteTask"
        /\ task' = del.task
        /\ taskTag' = del.taskTag
        /\ Answer(p, IF ~del.ok THEN ErrorResponse(500)
                     ELSE Response(200, "message", <<>>, <<>>))
        /\ UNCHANGED <<fk, tag, nextTask, nextTag, clock, req, resp, client>>

(***************************************************************************)
(* The browser: DataTable (src/unnamed/part_004).  The table is the one of *)
(* user "A".  data is what useTasksQuery holds, tasks the useState copy,   *)
(* dataChanged whether the effect on [data] is still to run.               *)
(***************************************************************************)
NoDataTable ==
    [hasData |-> FALSE, data |-> <<>>, dataChanged |-> FALSE, dataUpdateCount |-> 0,
     tasks |-> <<>>, tagsData |-> <<>>, selectedTagId |-> ""]

\* The effect on [data] that sets the tasks only after the first query.
setTasksOnFirstLoad(t) ==
    IF t.hasData /\ t.dataUpdateCount = 1 THEN t.data ELSE t.tasks

\* useEffect(() => { if (data?.tasks) setTasks(data.tasks) }, [data])
setTasks(t) == IF t.hasData THEN t.data ELSE t.tasks

\* filteredTasks looking only at the first tag of each task.
filteredTasksByFirstTag(t) ==
    IF t.selectedTagId # "" /\ t.selectedTagId # "all"
    THEN SelectSeq(t.tasks, LAMBDA v : v.tags # <<>> /\ v.tags[1].id = t.selectedTagId)
    ELSE t.tasks

\* filteredTasks: tasks.filter((t) => t.tags.some((tag) => tag.id === selectedTagId))
filteredTasks(t) ==
    IF t.selectedTagId # "" /\ t.selectedTagId # "all"
    THEN SelectSeq(t.tasks, LAMBDA v : \E e \in Range(v.tags) : e.id = t.selectedTagId)
    ELSE t.tasks

\* The response to the unfiltered GET /tasks of the table's user arrives:
\* the query has new data.
TasksQuerySettles ==
    /\ req.op = "GET /tasks" /\ req.session = "A" /\ req.filter = Absent
    /\ resp.status = 200
    /\ ~dataTable.dataChanged
    /\ dataTable.dataUpdateCount < MaxFetches
    /\ dataTable' = [dataTable EXCEPT
           !.hasData = TRUE,
           !.data = resp.tasks,
           !.dataChanged = ~dataTable.hasData \/ resp.tasks # dataTable.data,
           !.dataUpdateCount = @ + 1]
    /\ req' = NoRequest
    /\ resp' = NoResponse
    /\ UNCHANGED <<db, proc, tagsSelector, themeProvider>>

\* The effect on [data] runs.
DataEffect ==
    /\ dataTable.dataChanged
    /\ dataTable' = [dataTable EXCEPT !.tasks = setTasks(dataTable), !.dataChanged = FALSE]
    /\ UNCHANGED <<db, req, resp, proc, tagsSelector, themeProvider>>

\* The response to GET /tags of the table's user arrives: the options of
\* the tag filter.
TagsQuerySettles ==
    /\ req.op = "GET /tags" /\ req.session = "A"
    /\ resp.status = 200
    /\ dataTable' = [dataTable EXCEPT !.tagsData = resp.tags]
    /\ req' = NoRequest
    /\ resp' = NoResponse
    /\ UNCHANGED <<db, proc, tagsSelector, themeProvider>>

\* <Select value={selectedTagId} onValueChange={setSelectedTagId}>
setSelectedTagId(value) ==
    /\ value \in {"all"} \cup {dataTable.tagsData[i].id : i \in 1..Len(dataTable.tagsData)}
    /\ value # dataTable.selectedTagId
    /\ dataTable' = [dataTable EXCEPT !.selectedTagId = value]
    /\ UNCHANGED <<db, req, resp, proc, tagsSelector, themeProvider>>

(***************************************************************************)
(* The browser: the tag checkboxes.  In the create form (TagsSelector) the *)
(* selection is the form value "tags", read at the event, and the boxes    *)
(* show values, read at the last render; nothing in the component          *)
(* subscribes to the form value, so a render need not follow a toggle.  In *)
(* the edit drawer (TaskCellViewer) the selection is the state             *)
(* selectedTags, and setSelectedTags renders.                              *)
(***************************************************************************)
NoTagsSelector ==
    [mounted |-> FALSE, tags |-> <<>>, values |-> <<>>, selectedTags |-> <<>>]

\* The tags the checkboxes are drawn for.
SelectorTags == TagIdsUpTo(MaxTags)

\* selected.filter((id) => id !== t.id)
Without(selected, tagId) == SelectSeq(selected, LAMBDA id : id # tagId)

\* onChange of a checkbox: [...selected, t.id] when the box becomes checked,
\* selected.filter(...) when it becomes unchecked.
onChange(selected, tagId, checked) ==
    IF checked THEN Append(selected, tagId) ELSE Without(selected, tagId)

\* The form and a drawer open: defaultValues tags: [], and
\* useState(task.tags.map((t) => t.id)).
MountSelectors(taskTags) ==
    /\ ~tagsSelector.mounted
    /\ tagsSelector' = [mounted |-> TRUE, tags |-> <<>>, values |-> <<>>,
                        selectedTags |-> taskTags]
    /\ UNCHANGED <<db, req, resp, proc, dataTable, themeProvider>>

\* A click on the box of tagId in the create form: the box shows
\* values.includes(t.id), the event carries the opposite.
FormToggle(tagId) ==
    /\ tagsSelector.mounted
    /\ Len(tagsSelector.tags) < MaxSelected
    /\ tagsSelector' = [tagsSelector EXCEPT
           !.tags = onChange(@, tagId, tagId \notin Range(tagsSelector.values))]
    /\ UNCHANGED <<db, req, resp, proc, dataTable, themeProvider>>

\* TagsSelector renders: const values = form.getValues("tags") ?? []
FormRender ==
    /\ tagsSelector.mounted
    /\ tagsSelector.values # tagsSelector.tags
    /\ tagsSelector' = [tagsSelector EXCEPT !.values = tagsSelector.tags]
    /\ UNCHANGED <<db, req, resp, proc, dataTable, themeProvider>>

\* A click on the box of tagId in the edit drawer.
DrawerToggle(tagId) ==
    /\ tagsSelector.mounted
    /\ Len(tagsSelector.selectedTags) < MaxSelected
    /\ tagsSelector' = [tagsSelector EXCEPT
           !.selectedTags = onChange(@, tagId, tagId \notin Range(@))]
    /\ UNCHANGED <<db, req, resp, proc, dataTable, themeProvider>>

(***************************************************************************)
(* The browser: ThemeProvider (src/unnamed/part_003) and ThemeToggle.      *)
(* storage is the item of localStorage, matches the media query            *)
(* (prefers-color-scheme: dark), dark the class of the document root,      *)
(* effects whether the effects on [theme] are still to run, listening      *)
(* whether handleChange is registered.                                     *)
(***************************************************************************)
Themes == {"light", "dark", "system"}

NoThemeProvider ==
    [mounted |-> FALSE, theme |-> "system", actualTheme |-> "light", dark |-> FALSE,
     storage |-> Null, matches |-> FALSE, effects |-> FALSE, listening |-> FALSE]

\* resolvedTheme with "system" read as light.
resolvedThemeWithoutSystem(theme, matches) == IF theme = "dark" THEN "dark" ELSE "light"

\* theme === "system" ? (matchMedia(...).matches ? "dark" : "light") : theme
resolvedTheme(theme, matches) ==
    IF theme = "system" THEN (IF matches THEN "dark" ELSE "light") ELSE theme

\* The provider mounts in a browser whose storage holds stored and whose
\* media query is matches: useState(localStorage.getItem(...) || defaultTheme).
MountThemeProvider(stored, matches) ==
    /\ ~themeProvider.mounted
    /\ themeProvider' = [NoThemeProvider EXCEPT
           !.mounted = TRUE,
           !.theme = IF stored = Null THEN "system" ELSE stored,
           !.storage = stored,
           !.matches = matches,
           !.effects = TRUE]
    /\ UNCHANGED <<db, req, resp, proc, dataTable, tagsSelector>>

\* The two effects on [theme] run.
ThemeEffects ==
    LET resolved == resolvedTheme(themeProvider.theme, themeProvider.matches)
    IN  /\ themeProvider.effects
        /\ themeProvider' = [themeProvider EXCEPT
               !.dark = (resolved = "dark"),
               !.actualTheme = resolved,
               !.storage = themeProvider.theme,
               !.listening = (themeProvider.theme = "system"),
               !.effects = FALSE]
        /\ UNCHANGED <<db, req, resp, proc, dataTable, tagsSelector>>

\* setTheme: setThemeState(newTheme); a new value schedules the effects.
setTheme(newTheme) ==
    /\ themeProvider' = [themeProvider EXCEPT
           !.theme = newTheme,
           !.effects = (newTheme # themeProvider.theme)]
    /\ UNCHANGED <<db, req, resp, proc, dataTable, tagsSelector>>

\* ThemeToggle: onClick={() => setTheme(actualTheme === "dark" ? "light" : "dark")}
ThemeToggle ==
    /\ themeProvider.mounted
    /\ ~themeProvider.effects
    /\ setTheme(IF themeProvider.actualTheme = "dark" THEN "light" ELSE "dark")

\* The system colour scheme changes; handleChange runs when registered.
SystemChange ==
    LET now == ~themeProvider.matches
    IN  /\ themeProvider.mounted
        /\ ~themeProvider.effects
        /\ themeProvider' =
               IF themeProvider.listening
               THEN [themeProvider EXCEPT
                        !.matches = now,
                        !.actualTheme = IF now THEN "dark" ELSE "light",
                        !.dark = now]
               ELSE [themeProvider EXCEPT !.matches = now]
        /\ UNCHANGED <<db, req, resp, proc, dataTable, tagsSelector>>

(***************************************************************************)
(* Inputs of the requests.                                                 *)
(***************************************************************************)
Sessions == Users \cup {NoSession}

\* Ids a client can name: the ids generated so far and one that names no row.
TaskIdInputs == TaskIdsUpTo(nextTask) \cup {GhostTask}
TagIdInputs == TagIdsUpTo(nextTag) \cup {GhostTag}
TagLists == SeqsUpTo(TagIdInputs, MaxLen)

TagsInputs == {[hasTags |-> FALSE, tags |-> <<>>]}
                  \cup {[hasTags |-> TRUE, tags |-> l] : l \in TagLists}

\* Bodies sent to both writers, also by callers without a session and for
\* ids the caller does not own: two that pass both schemas (with and without
\* tags), one with an empty title, one with a status outside the enum.
ProbeBodies ==
    {TaskBody("a", Absent, "todo", "medium", TRUE, <<GhostTag>>),
     TaskBody("a", Absent, Absent, Absent, FALSE, <<>>),
     TaskBody("", Absent, Absent, Absent, TRUE, <<>>),
     TaskBody(Absent, Absent, "done", Absent, FALSE, <<>>)}

\* POST /tasks bodies: a title with every tags input, a body without title.
CreateBodies ==
    {TaskBody("a", Absent, Absent, Absent, t.hasTags, t.tags) : t \in TagsInputs}
        \cup {TaskBody(Absent, Absent, Absent, Absent, TRUE, <<>>)}
        \cup ProbeBodies

\* PATCH /tasks/:id bodies: every tags input (the empty body among them).
UpdateBodies ==
    {TaskBody(Absent, Absent, Absent, Absent, t.hasTags, t.tags) : t \in TagsInputs}
        \cup ProbeBodies

Owns(session, taskId) ==
    \E i \in 1..Len(task) : task[i].id = taskId /\ task[i].userId = session

TagNames == {"n", ""}

(***************************************************************************)
(* The specification.                                                      *)
(***************************************************************************)
Init ==
    /\ fk \in FkModes
    /\ task = <<>>
    /\ tag = <<>>
    /\ taskTag = <<>>
    /\ nextTask = 0
    /\ nextTag = 0
    /\ clock = 0
    /\ req = NoRequest
    /\ resp = NoResponse
    /\ proc = NoProcs
    /\ dataTable = NoDataTable
    /\ tagsSelector = NoTagsSelector
    /\ themeProvider = NoThemeProvider

\* The worker handles one request at a time in this specification.
Idle == req = NoRequest

Next ==
    \/ Idle /\ \E s \in Sessions, f \in TagIdInputs \cup {Absent} : GetTasks(s, f)
    \/ Idle /\ \E s \in Sessions, id \in TaskIdInputs : GetTask(s, id)
    \/ Idle /\ \E s \in Sessions, b \in CreateBodies :
                   (s \in Users \/ b \in ProbeBodies) /\ PostTask(s, b)
    \/ Idle /\ \E s \in Sessions, id \in TaskIdInputs, b \in UpdateBodies :
                   (Owns(s, id) \/ b \in ProbeBodies) /\ PatchTask(s, id, b)
    \/ Idle /\ \E s \in Sessions, id \in TaskIdInputs : DeleteTask(s, id)
    \/ Idle /\ \E s \in Sessions : GetTags(s)
    \/ Idle /\ \E s \in Sessions, n \in TagNames : PostTag(s, TagBody(n))
    \/ Send

Spec == Init /\ [][Next]_vars

TypeOK ==
    /\ fk \in FkModes
    /\ nextTask \in 0..MaxTasks
    /\ nextTag \in 0..MaxTags

(***************************************************************************)
(* The specification of the task fields and of time: requests of           *)
(* authenticated users whose bodies set the scalar fields, while the clock *)
(* advances.                                                               *)
(***************************************************************************)
\* new Date() moves on.
Tick ==
    /\ clock < MaxClock
    /\ clock' = clock + 1
    /\ UNCHANGED <<fk, task, tag, taskTag, nextTask, nextTag, req, resp, proc, client>>

\* POST /tasks bodies: the required field alone, and every field.
FieldCreateBodies ==
    {TaskBody("a", Absent, Absent, Absent, FALSE, <<>>),
     TaskBody("a", "d", "completed", "high", FALSE, <<>>)}

\* PATCH /tasks/:id bodies: the empty body, one field with a new value, one
\* field with the value a created task has, two fields, a field and tags.
FieldUpdateBodies ==
    {TaskBody(Absent, Absent, Absent, Absent, FALSE, <<>>),
     TaskBody("b", Absent, Absent, Absent, FALSE, <<>>),
     TaskBody(Absent, Absent, "todo", Absent, FALSE, <<>>),
     TaskBody(Absent, "d", "completed", Absent, FALSE, <<>>),
     TaskBody(Absent, Absent, Absent, "high", TRUE, <<>>)}

NextFields ==
    \/ Idle /\ \E s \in Users, b \in FieldCreateBodies : PostTask(s, b)
    \/ Idle /\ \E s \in Users, id \in TaskIdInputs, b \in FieldUpdateBodies :
                   PatchTask(s, id, b)
    \/ Tick
    \/ Send

SpecFields == Init /\ [][NextFields]_vars

(***************************************************************************)
(* The specification of retries: a client repeats the DELETE or the PATCH  *)
(* it has just sent, at once or after some time.                           *)
(***************************************************************************)
RetryPatch ==
    /\ req.op = "PATCH /tasks/:id"
    /\ PatchTask(req.session, req.id, req.body)

RetryDelete ==
    /\ req.op = "DELETE /tasks/:id"
    /\ DeleteTask(req.session, req.id)

RetryBodies == {TaskBody(Absent, Absent, Absent, Absent, TRUE, l) : l \in TagLists}

\* One user creates the tags and the tasks; both users update and delete.
NextRetry ==
    \/ Idle /\ PostTag("A", TagBody("n"))
    \/ Idle /\ PostTask("A", TaskBody("a", Absent, Absent, Absent, FALSE, <<>>))
    \/ Idle /\ \E s \in Users, id \in TaskIdInputs, b \in RetryBodies :
                   PatchTask(s, id, b)
    \/ Idle /\ \E s \in Users, id \in TaskIdInputs : DeleteTask(s, id)
    \/ RetryPatch
    \/ RetryDelete
    \/ ~Idle /\ Tick
    \/ Send

SpecRetry == Init /\ [][NextRetry]_vars

(***************************************************************************)
(* The specification of concurrent updates: tags and tasks are created by  *)
(* whole requests, and the PATCH requests of the two slots run statement   *)
(* by statement, interleaved.                                              *)
(***************************************************************************)
\* Tags lists naming tags that exist.
ExistingTagLists(n) == SeqsUpTo(TagIdsUpTo(nextTag), n)

\* Bodies sent also without a session and for ids the caller does not own.
ConcProbes ==
    {TaskBody(Absent, Absent, Absent, Absent, FALSE, <<>>),
     TaskBody("", Absent, Absent, Absent, FALSE, <<>>)}

ConcBodies ==
    {TaskBody(Absent, Absent, Absent, Absent, TRUE, l) : l \in ExistingTagLists(MaxLen)}
        \cup ConcProbes

\* One user creates the tags and the tasks, before the updates start; slot
\* "p" takes the first of the two updates.
NextConc ==
    \/ Idle /\ proc = NoProcs /\ PostTag("A", TagBody("n"))
    \/ Idle /\ proc = NoProcs /\ \E l \in ExistingTagLists(1) :
                   PostTask("A", TaskBody("a", Absent, Absent, Absent, TRUE, l))
    \/ Send
    \/ Idle /\ \E p \in Slots, s \in Sessions, id \in TaskIdInputs, b \in ConcBodies :
                   /\ p = "q" => proc["p"].pc # "idle"
                   /\ Owns(s, id) \/ b \in ConcProbes
                   /\ PatchReceive(p, s, id, b)
    \/ \E p \in Slots : PatchSelect(p)
    \/ \E p \in Slots : PatchUpdate(p)
    \/ \E p \in Slots : PatchDeleteTags(p)
    \/ \E p \in Slots : PatchInsertTag(p)
    \/ \E p \in Slots : PatchReselect(p)
    \/ \E p \in Slots : PatchRespond(p)

SpecConc == Init /\ [][NextConc]_vars

(***************************************************************************)
(* The specification of an update racing a deletion: slot "p" runs a PATCH *)
(* with a tags list and slot "q" a DELETE, statement by statement.         *)
(***************************************************************************)
NextRace ==
    \/ Idle /\ proc = NoProcs /\ PostTag("A", TagBody("n"))
    \/ Idle /\ proc = NoProcs /\ \E l \in ExistingTagLists(1) :
                   PostTask("A", TaskBody("a", Absent, Absent, Absent, TRUE, l))
    \/ Send
    \/ Idle /\ \E s \in Sessions, id \in TaskIdInputs, l \in ExistingTagLists(MaxLen) :
                   PatchReceive("p", s, id,
                                TaskBody(Absent, Absent, Absent, Absent, TRUE, l))
    \/ Idle /\ \E s \in Sessions, id \in TaskIdInputs : DeleteReceive("q", s, id)
    \/ PatchSelect("p")
    \/ PatchUpdate("p")
    \/ PatchDeleteTags("p")
    \/ PatchInsertTag("p")
    \/ PatchReselect("p")
    \/ PatchRespond("p")
    \/ DeleteSelect("q")
    \/ DeleteStatement("q")

SpecRace == Init /\ [][NextRace]_vars

(***************************************************************************)
(* The specification of writes and what they leave: tasks of both users    *)
(* with tags, PATCH requests that change a field and replace the tags,     *)
(* also by lists with an id that names no tag, at a later time, and the    *)
(* writer listing its tasks right after the answer.                        *)
(***************************************************************************)
\* Tags lists of at most one existing tag, and each followed by an id that
\* names no tag.
WriteTagLists ==
    ExistingTagLists(1) \cup {Append(l, GhostTag) : l \in ExistingTagLists(1)}

\* PATCH /tasks/:id bodies: a new title with a tags list, a new status.
WriteBodies ==
    {TaskBody("b", Absent, Absent, Absent, TRUE, l) : l \in WriteTagLists}
        \cup {TaskBody(Absent, Absent, "completed", Absent, FALSE, <<>>)}

\* Bodies also sent by callers who do not own the task.
WriteProbes ==
    {TaskBody("b", Absent, Absent, Absent, TRUE, <<>>),
     TaskBody(Absent, Absent, "completed", Absent, FALSE, <<>>)}

\* The client that got 201 or 200 for its write sends GET /tasks next.
ReadBack ==
    /\ req.op \in {"POST /tasks", "PATCH /tasks/:id"}
    /\ resp.status \in {200, 201}
    /\ GetTasks(req.session, Absent)

NextWrites ==
    \/ Idle /\ PostTag("A", TagBody("n"))
    \/ Idle /\ \E s \in Users, l \in ExistingTagLists(1) :
                   PostTask(s, TaskBody("a", Absent, Absent, Absent, TRUE, l))
    \/ Idle /\ \E s \in Sessions, id \in TaskIdInputs, b \in WriteBodies :
                   (Owns(s, id) \/ b \in WriteProbes) /\ PatchTask(s, id, b)
    \/ ReadBack
    \/ Idle /\ Tick
    \/ Send

SpecWrites == Init /\ [][NextWrites]_vars

(***************************************************************************)
(* The specification of the task table: user "A" creates tags and tasks,   *)
(* deletes tasks and lists them; the table receives the results of its     *)
(* queries and filters by tag.                                             *)
(***************************************************************************)
NextTable ==
    \/ Idle /\ PostTag("A", TagBody("n"))
    \/ Idle /\ \E l \in ExistingTagLists(MaxLen) :
                   PostTask("A", TaskBody("a", Absent, Absent, Absent, TRUE, l))
    \/ Idle /\ \E id \in TaskIdsUpTo(nextTask) : DeleteTask("A", id)
    \/ Idle /\ \E f \in TagIdsUpTo(nextTag) \cup {Absent} : GetTasks("A", f)
    \/ Idle /\ GetTags("A")
    \/ Send
    \/ TasksQuerySettles
    \/ DataEffect
    \/ TagsQuerySettles
    \/ \E v \in {"all"} \cup TagIdsUpTo(nextTag) : setSelectedTagId(v)

SpecTable == Init /\ [][NextTable]_vars

(***************************************************************************)
(* The specification of the widgets of the browser that hold state of      *)
(* their own: the tag checkboxes and the theme.                            *)
(***************************************************************************)
NextWidgets ==
    \/ \E l \in SeqsUpTo(SelectorTags, MaxLen) : MountSelectors(l)
    \/ \E t \in SelectorTags : FormToggle(t)
    \/ FormRender
    \/ \E t \in SelectorTags : DrawerToggle(t)
    \/ \E stored \in Themes \cup {Null}, m \in BOOLEAN : MountThemeProvider(stored, m)
    \/ ThemeEffects
    \/ ThemeToggle
    \/ SystemChange

SpecWidgets == Init /\ [][NextWidgets]_vars


(***************************************************************************)
(* Vocabulary of the properties.                                           *)
(***************************************************************************)
\* The tag ids of the task_tag rows of a task, in table order.
TagIdsOfTask(taskTagT, taskId) ==
    LET rows == SelectSeq(taskTagT, LAMBDA r : r.taskId = taskId)
    IN  [i \in 1..Len(rows) |-> rows[i].tagId]

\* The ids in the tags array of a task object of a response.
TagIdsOfView(view) == [i \in 1..Len(view.tags) |-> view.tags[i].id]

StoredTaskIds == {task[i].id : i \in 1..Len(task)}
StoredTagIds == {tag[k].id : k \in 1..Len(tag)}

Succeeded(op, status) == req.op = op /\ resp.status = status

\* What the claims call a body that fails schema validation.
EmptyOrMissing(v) == v \in {Absent, ""}
FailsValidation(op, body) ==
    \/ op = "POST /tasks" /\ EmptyOrMissing(body.title)
    \/ op = "PATCH /tasks/:id" /\ body.title = ""
    \/ op \in {"POST /tasks", "PATCH /tasks/:id"}
           /\ \/ body.status \notin taskStatusEnum \cup {Absent}
              \/ body.priority \notin taskPriorityEnum \cup {Absent}
    \/ op = "POST /tags" /\ EmptyOrMissing(body.name)

(***************************************************************************)
(* C1.  After a successful PATCH /tasks/:id whose body has tags = L the    *)
(* task_tag rows of the task are exactly L (no union with the rows it had),*)
(* the response carries them, and GET /tasks/:id by the owner returns a    *)
(* task whose tags are the rows the task has.                              *)
(***************************************************************************)
C1_PatchReplacesAndGetShowsTags ==
    /\ (Succeeded("PATCH /tasks/:id", 200) /\ req.body.hasTags) =>
           TagIdsOfTask(taskTag, req.id) = req.body.tags
    /\ Succeeded("GET /tasks/:id", 200) =>
           /\ resp.tasks[1].hasTags
           /\ Range(TagIdsOfView(resp.tasks[1])) = Range(TagIdsOfTask(taskTag, req.id))

(***************************************************************************)
(* C2.  A successful PATCH /tasks/:id whose body has no tags field leaves  *)
(* the task_tag rows of the task as they were, in set and in order,        *)
(* whatever other fields the body has.                                     *)
(***************************************************************************)
C2_PatchWithoutTagsKeepsRows ==
    [][ (req'.op = "PATCH /tasks/:id" /\ resp'.status = 200 /\ ~req'.body.hasTags) =>
            TagIdsOfTask(taskTag', req'.id) = TagIdsOfTask(taskTag, req'.id) ]_vars

C2_Witness ==
    /\ Succeeded("PATCH /tasks/:id", 200)
    /\ ~req.body.hasTags
    /\ req.body.title # Absent
    /\ Len(TagIdsOfTask(taskTag, req.id)) = MaxLen
    /\ Cardinality(Range(TagIdsOfTask(taskTag, req.id)) \cap StoredTagIds) = MaxLen

(***************************************************************************)
(* C3.  The tags array of the task in the 201 response of POST /tasks has, *)
(* as a set of ids, exactly the tag ids of the request's tags list (none   *)
(* when tags is omitted).                                                  *)
(***************************************************************************)
C3_PostReturnsSuppliedTags ==
    Succeeded("POST /tasks", 201) =>
        /\ resp.tasks[1].hasTags
        /\ Range(TagIdsOfView(resp.tasks[1])) =
               IF req.body.hasTags THEN Range(req.body.tags) ELSE {}

(***************************************************************************)
(* C4.  After a successful DELETE /tasks/:id the task row and every        *)
(* task_tag row of the task are gone, and no listing of any user, filtered *)
(* or not, includes the task.                                              *)
(***************************************************************************)
ListedIds(userId, tagFilter) ==
    LET rows == IF tagFilter # Absent
                THEN SelectTasksByTag(task, taskTag, userId, tagFilter)
                ELSE SelectTasksOf(task, userId)
    IN  {rows[i].id : i \in 1..Len(rows)}

C4_DeleteRemovesTaskAndRows ==
    Succeeded("DELETE /tasks/:id", 200) =>
        /\ req.id \notin StoredTaskIds
        /\ \A j \in 1..Len(taskTag) : taskTag[j].taskId # req.id
        /\ \A u \in Users, f \in TagIdInputs \cup {Absent} : req.id \notin ListedIds(u, f)

(***************************************************************************)
(* C5.  GET /tasks?tag=T as user U returns exactly the tasks of U that     *)
(* have a task_tag row with tagId = T, and the tags array of each returned *)
(* task holds every tag attached to that task, not only T.  (An attached   *)
(* tag is a row of tag that a task_tag row of the task names.)             *)
(***************************************************************************)
AttachedTags(taskId) == Range(TagIdsOfTask(taskTag, taskId)) \cap StoredTagIds

C5_FilteredListing ==
    (Succeeded("GET /tasks", 200) /\ req.filter # Absent) =>
        /\ {resp.tasks[i].row.id : i \in 1..Len(resp.tasks)} =
               {t.id : t \in {r \in Range(task) :
                    /\ r.userId = req.session
                    /\ \E j \in 1..Len(taskTag) :
                           taskTag[j].taskId = r.id /\ taskTag[j].tagId = req.filter}}
        /\ \A i \in 1..Len(resp.tasks) :
               /\ resp.tasks[i].row \in Range(task)
               /\ resp.tasks[i].hasTags
               /\ Range(TagIdsOfView(resp.tasks[i])) = AttachedTags(resp.tasks[i].row.id)

C5_Witness ==
    /\ Succeeded("GET /tasks", 200)
    /\ req.filter \in StoredTagIds
    /\ Len(resp.tasks) = 1
    /\ Cardinality(Range(TagIdsOfView(resp.tasks[1]))) = 2
    /\ Cardinality({task[i].userId : i \in 1..Len(task)}) = 2
    /\ \A i \in 1..Len(task) : \E j \in 1..Len(taskTag) :
           taskTag[j].taskId = task[i].id /\ taskTag[j].tagId = req.filter


(***************************************************************************)
(* C6.  Cross-user isolation: no response to a request of user B holds a   *)
(* task or a tag of another user, the tags embedded in B's own tasks       *)
(* included, and no request of B changes a task or tag row of another      *)
(* user.                                                                   *)
(***************************************************************************)
C6_CrossUserIsolation ==
    [][ req'.session \in Users =>
            /\ \A i \in 1..Len(resp'.tasks) :
                   /\ resp'.tasks[i].row.userId = req'.session
                   /\ \A e \in Range(resp'.tasks[i].tags) :
                          \A k \in 1..Len(tag') :
                              tag'[k].id = e.id => tag'[k].userId = req'.session
            /\ \A g \in Range(resp'.tags) : g.userId = req'.session
            /\ \A r \in Range(task) : r.userId # req'.session => r \in Range(task')
            /\ \A g \in Range(tag) : g.userId # req'.session => g \in Range(tag') ]_vars

(***************************************************************************)
(* C7.  A caller without a valid session gets 401 from every endpoint, for *)
(* every body, valid or invalid; the response holds no row and the         *)
(* database is unchanged.                                                  *)
(***************************************************************************)
C7_UnauthorizedAlways401 ==
    [][ (req'.op # "none" /\ req'.session = NoSession) =>
            /\ resp'.status = 401
            /\ resp'.tasks = <<>> /\ resp'.tags = <<>>
            /\ UNCHANGED db ]_vars

\* C7 as amended: 401 for every request without a session whose body passes
\* the endpoint's schema (GET and DELETE have none), 400 when it does not;
\* in both cases no row in the response and the database unchanged.
C7_Unauthorized401UnlessInvalid ==
    [][ (req'.op # "none" /\ req'.session = NoSession) =>
            /\ resp'.status = IF FailsValidation(req'.op, req'.body) THEN 400 ELSE 401
            /\ resp'.tasks = <<>> /\ resp'.tags = <<>>
            /\ UNCHANGED db ]_vars

C7_Witness ==
    /\ Succeeded("PATCH /tasks/:id", 401)
    /\ req.session = NoSession
    /\ req.id \in StoredTaskIds
    /\ req.body.hasTags
    /\ TagIdsOfTask(taskTag, req.id) # req.body.tags

(***************************************************************************)
(* C8.  For POST /tasks, PATCH /tasks/:id and POST /tags a body that fails *)
(* schema validation yields 400 whoever the caller is and whatever id the  *)
(* path names (the decision precedes the session lookup and the            *)
(* task-existence lookup), and leaves every table unchanged.               *)
(***************************************************************************)
C8_ValidationFirst ==
    [][ FailsValidation(req'.op, req'.body) =>
            /\ resp'.status = 400
            /\ resp'.tasks = <<>> /\ resp'.tags = <<>>
            /\ UNCHANGED db ]_vars

C8_Witness ==
    /\ Succeeded("PATCH /tasks/:id", 400)
    /\ FailsValidation(req.op, req.body)
    /\ req.session = NoSession
    /\ req.id \notin StoredTaskIds
    /\ task # <<>>

(***************************************************************************)
(* C9.  GET, PATCH and DELETE on /tasks/:id by an authenticated user who   *)
(* owns no task with that id (no such id, or another user's task) answer   *)
(* 404 and create, change or remove no row.                                *)
(***************************************************************************)
OnTaskId == {"GET /tasks/:id", "PATCH /tasks/:id", "DELETE /tasks/:id"}

C9_NotOwned404 ==
    [][ (req'.op \in OnTaskId /\ req'.session \in Users /\ ~Owns(req'.session, req'.id)) =>
            resp'.status = 404 /\ UNCHANGED db ]_vars

\* C9 as amended: ... and, for PATCH, the body passes schema validation (a
\* body that fails it is answered 400 before the task is looked up).
C9_NotOwned404UnlessInvalid ==
    [][ (/\ req'.op \in OnTaskId
         /\ req'.session \in Users
         /\ ~Owns(req'.session, req'.id)
         /\ ~FailsValidation(req'.op, req'.body)) =>
            resp'.status = 404 /\ UNCHANGED db ]_vars

C9_Witness ==
    /\ Succeeded("PATCH /tasks/:id", 404)
    /\ req.session \in Users
    /\ req.id \in StoredTaskIds
    /\ req.body.hasTags
    /\ TagIdsOfTask(taskTag, req.id) # req.body.tags

(***************************************************************************)
(* C10.  In every reachable state the tags of a task in any response (of   *)
(* POST, of PATCH, of GET /tasks/:id, of each element of GET /tasks) are   *)
(* exactly the tag ids of the task_tag rows stored for that task, whether  *)
(* or not a tag id names an existing tag.                                  *)
(***************************************************************************)
C10_ReadsShowStoredRows ==
    \A i \in 1..Len(resp.tasks) :
        /\ resp.tasks[i].hasTags
        /\ Range(TagIdsOfView(resp.tasks[i])) =
               Range(TagIdsOfTask(taskTag, resp.tasks[i].row.id))

(***************************************************************************)
(* Vocabulary of the properties about steps.                               *)
(***************************************************************************)
\* The step takes a request of kind op and answers it with status: the
\* worker was idle before it.
Handles(op, status) == req.op = "none" /\ req'.op = op /\ resp'.status = status

\* The row of a task in a table (the task is stored).
RowOf(taskT, taskId) == SelectTaskById(taskT, taskId)[1]

\* What a PATCH body makes of a field.
Patched(supplied, old) == IF supplied # Absent THEN supplied ELSE old

(***************************************************************************)
(* C11.  A successful PATCH /tasks/:id changes, among title, description,  *)
(* status and priority, only the fields present in the body (each omitted  *)
(* field keeps its previous value), and always sets updatedAt to the       *)
(* request time, also when the body is empty or the supplied values equal  *)
(* the current ones.                                                       *)
(***************************************************************************)
C11_PatchSetsSuppliedFieldsAndTime ==
    [][ Handles("PATCH /tasks/:id", 200) =>
            LET old == RowOf(task, req'.id)
                new == RowOf(task', req'.id)
                b == req'.body
            IN  /\ new.title = Patched(b.title, old.title)
                /\ new.description = Patched(b.description, old.description)
                /\ new.status = Patched(b.status, old.status)
                /\ new.priority = Patched(b.priority, old.priority)
                /\ new.updatedAt = clock ]_vars

\* An empty body, later than the creation, on a task whose title an earlier
\* PATCH changed.
C11_Witness ==
    /\ Succeeded("PATCH /tasks/:id", 200)
    /\ req.body = TaskBody(Absent, Absent, Absent, Absent, FALSE, <<>>)
    /\ RowOf(task, req.id).title = "b"
    /\ RowOf(task, req.id).updatedAt = clock
    /\ RowOf(task, req.id).createdAt < clock

(***************************************************************************)
(* C12.  Every successful POST /tasks inserts exactly one task row, whose  *)
(* id differs from the id of every task row already stored, whose userId   *)
(* is the caller, whose createdAt equals its updatedAt, and whose status   *)
(* is todo and priority is medium when the body omits them.                *)
(***************************************************************************)
C12_PostInsertsOneFreshRow ==
    [][ Handles("POST /tasks", 201) =>
            /\ Len(task') = Len(task) + 1
            /\ SubSeq(task', 1, Len(task)) = task
            /\ LET new == task'[Len(task')]
               IN  /\ new.id \notin StoredTaskIds
                   /\ new.userId = req'.session
                   /\ new.createdAt = new.updatedAt
                   /\ new.createdAt = clock
                   /\ req'.body.status = Absent => new.status = "todo"
                   /\ req'.body.priority = Absent => new.priority = "medium" ]_vars

\* The second task, created later than the first, by a body without status
\* and priority.
C12_Witness ==
    /\ Succeeded("POST /tasks", 201)
    /\ Len(task) = MaxTasks
    /\ req.body.status = Absent /\ req.body.priority = Absent
    /\ task[Len(task)].createdAt > task[1].createdAt

(***************************************************************************)
(* C13.  Retrying is idempotent on the stored state: the same              *)
(* DELETE /tasks/:id, or the same tag-replace PATCH /tasks/:id, issued     *)
(* twice in a row leaves the task, tag and task_tag tables in the same end *)
(* state as issued once.                                                   *)
(***************************************************************************)
\* The step repeats the request the worker has just answered.
Retries == req # NoRequest /\ req' = req /\ resp' # NoResponse

TagReplaceOrDelete(r) ==
    \/ r.op = "DELETE /tasks/:id"
    \/ r.op = "PATCH /tasks/:id" /\ r.body.hasTags

C13_RetrySameEndState ==
    [][ (Retries /\ TagReplaceOrDelete(req)) =>
            task' = task /\ tag' = tag /\ taskTag' = taskTag ]_vars

\* A table of tasks without its updatedAt column.
WithoutUpdatedAt(taskT) == [i \in 1..Len(taskT) |-> [taskT[i] EXCEPT !.updatedAt = Null]]

\* C13 as amended: ... in the same end state, except that a repeated PATCH
\* that finds the task sets the updatedAt of that task to its own time.
C13_RetrySameEndStateButUpdatedAt ==
    [][ (Retries /\ TagReplaceOrDelete(req)) =>
            /\ tag' = tag
            /\ taskTag' = taskTag
            /\ WithoutUpdatedAt(task') = WithoutUpdatedAt(task)
            /\ \A i \in 1..Len(task) :
                   task'[i].updatedAt # task[i].updatedAt =>
                       /\ req.op = "PATCH /tasks/:id"
                       /\ task[i].id = req.id
                       /\ task'[i].updatedAt = clock ]_vars

\* A tag-replace PATCH answered later than the task was created, whose list
\* repeats an id: the rows of the task are the list, once.
C13_Witness ==
    /\ Succeeded("PATCH /tasks/:id", 200)
    /\ req.body.hasTags
    /\ Len(req.body.tags) = MaxLen
    /\ Cardinality(Range(req.body.tags)) = 1
    /\ TagIdsOfTask(taskTag, req.id) = req.body.tags
    /\ RowOf(task, req.id).updatedAt > RowOf(task, req.id).createdAt
    /\ Len(taskTag) > MaxLen

(***************************************************************************)
(* C14.  Two concurrent PATCH requests on the same task with tag lists A   *)
(* and B, whose delete-all and per-id insert statements interleave, can    *)
(* end with an association set for the task that is the union or a partial *)
(* mix of A and B and equals neither.  What every interleaving keeps: the  *)
(* final set holds nothing outside A and B, and holds all of A or all of   *)
(* B.                                                                      *)
(***************************************************************************)
\* The two requests in flight replaced the tags of one task and answered 200.
BothReplaced ==
    /\ \A p \in Slots :
           /\ proc[p].pc = "done"
           /\ proc[p].resp.status = 200
           /\ proc[p].body.hasTags
    /\ proc["p"].id = proc["q"].id

FinalTagSet == Range(TagIdsOfTask(taskTag, proc["p"].id))
ListOf(p) == Range(proc[p].body.tags)

C14_InterleavedReplaceMixes ==
    BothReplaced =>
        /\ FinalTagSet \subseteq ListOf("p") \cup ListOf("q")
        /\ ListOf("p") \subseteq FinalTagSet \/ ListOf("q") \subseteq FinalTagSet

\* The final set is the one of neither request.
C14_Witness ==
    /\ BothReplaced
    /\ FinalTagSet # ListOf("p")
    /\ FinalTagSet # ListOf("q")

(***************************************************************************)
(* C15.  In every reachable state the task_tag table has no two rows with  *)
(* the same (taskId, tagId) pair, whatever POST /tasks and PATCH           *)
(* /tasks/:id requests were made, lists that repeat an id included.        *)
(***************************************************************************)
C15_NoDuplicatePairs ==
    \A i, j \in 1..Len(taskTag) : taskTag[i] = taskTag[j] => i = j

(***************************************************************************)
(* C16.  In every reachable state every task_tag row links a task and a    *)
(* tag that have the same userId.                                          *)
(***************************************************************************)
C16_JoinRowsWithinOneOwner ==
    \A j \in 1..Len(taskTag), i \in 1..Len(task), k \in 1..Len(tag) :
        (task[i].id = taskTag[j].taskId /\ tag[k].id = taskTag[j].tagId) =>
            task[i].userId = tag[k].userId

(***************************************************************************)
(* C17.  On POST /tasks a tag id of the tags list that names no existing   *)
(* tag, or a tag of another user, is silently inserted as a task_tag row:  *)
(* the request still answers 201 and one join row per supplied id exists   *)
(* afterwards.                                                             *)
(***************************************************************************)
\* The ids of the tags of a user.
TagIdsOf(userId) == {tag[k].id : k \in {n \in 1..Len(tag) : tag[n].userId = userId}}

\* The step takes a valid POST /tasks of a user whose tags list has an id
\* that is not a tag of that user.
PostsForeignTagIds ==
    /\ req.op = "none"
    /\ req'.op = "POST /tasks"
    /\ req'.session \in Users
    /\ ~FailsValidation(req'.op, req'.body)
    /\ req'.body.hasTags
    /\ ~(Range(req'.body.tags) \subseteq TagIdsOf(req'.session))

\* The longest prefix of a list whose ids all name a tag.
RECURSIVE ExistingPrefix(_)
ExistingPrefix(l) ==
    IF l = <<>> \/ Head(l) \notin StoredTagIds THEN <<>>
    ELSE <<Head(l)>> \o ExistingPrefix(Tail(l))

C17_PostInsertsAnyTagId ==
    [][ PostsForeignTagIds =>
            /\ resp'.status = 201
            /\ TagIdsOfTask(taskTag', task'[Len(task')].id) = req'.body.tags ]_vars

\* C17 as amended: a tag of another user is always inserted; an id that
\* names no tag is inserted only by a database that does not enforce the
\* foreign key of task_tag.tag_id, and otherwise ends the request with 500
\* after the task row and the join rows before that id were stored.
C17_PostInsertsUnlessRejected ==
    [][ PostsForeignTagIds =>
            LET l == req'.body.tags
                rows == TagIdsOfTask(taskTag', task'[Len(task')].id)
            IN  /\ Len(task') = Len(task) + 1
                /\ IF fk = "off" \/ Range(l) \subseteq StoredTagIds
                   THEN resp'.status = 201 /\ rows = l
                   ELSE resp'.status = 500 /\ rows = ExistingPrefix(l) ]_vars

\* Foreign keys enforced: another user's tag was inserted, the id naming no
\* tag rejected.
C17_Witness ==
    /\ Succeeded("POST /tasks", 500)
    /\ fk # "off"
    /\ Len(req.body.tags) = MaxLen
    /\ req.body.tags[1] \in StoredTagIds \ TagIdsOf(req.session)
    /\ req.body.tags[MaxLen] \notin StoredTagIds
    /\ TagIdsOfTask(taskTag, task[Len(task)].id) = <<req.body.tags[1]>>

(***************************************************************************)
(* C18.  The tags array of a task in any response lists the attached tags  *)
(* in the insertion order of their task_tag rows: after POST or PATCH with *)
(* tags list [x1..xn] of distinct existing tags, the returned tags are     *)
(* x1..xn in that order.                                                   *)
(***************************************************************************)
\* The tag ids of the rows of a task that name a tag, in table order.
AttachedTagIdsInOrder(taskId) ==
    SelectSeq(TagIdsOfTask(taskTag, taskId), LAMBDA x : x \in StoredTagIds)

DistinctExisting(l) ==
    Cardinality(Range(l)) = Len(l) /\ Range(l) \subseteq StoredTagIds

C19_GetTagsOfCaller ==
    Succeeded("GET /tags", 200) =>
        /\ Range(resp.tags) = {g \in Range(tag) : g.userId = req.session}
        /\ Len(resp.tags) = Cardinality(Range(resp.tags))

C19_Witness ==
    /\ Succeeded("GET /tags", 200)
    /\ Len(resp.tags) = 1
    /\ Len(tag) = MaxTags
    /\ \E k \in 1..Len(tag) : tag[k].userId \notin {req.session}

(***************************************************************************)
(* C20.  No API request deletes a tag row or changes the id, name or       *)
(* userId of an existing tag: over any sequence of requests the rows of    *)
(* tag only grow, by exactly one row per successful POST /tags, and every  *)
(* stored tag keeps its fields.                                            *)
(***************************************************************************)
C20_TagsOnlyGrow ==
    [][ /\ SubSeq(tag', 1, Len(tag)) = tag
        /\ Len(tag') = IF Handles("POST /tags", 201) THEN Len(tag) + 1 ELSE Len(tag) ]_vars

\* The second tag of a user, with the name of the first, while a task_tag
\* row names the first.
C20_Witness ==
    /\ Succeeded("POST /tags", 201)
    /\ Len(tag) = MaxTags
    /\ tag[1].name = tag[Len(tag)].name
    /\ tag[1].userId = tag[Len(tag)].userId
    /\ \E j \in 1..Len(taskTag) : taskTag[j].tagId = tag[1].id

(***************************************************************************)
(* C21.  In every reachable state, those reached when a PATCH with a tags  *)
(* list and a DELETE of the same task interleave statement by statement    *)
(* included, every task_tag row references a task row that still exists    *)
(* (no orphaned join rows).                                                *)
(***************************************************************************)
C21_NoOrphanRows ==
    \A j \in 1..Len(taskTag) : taskTag[j].taskId \in StoredTaskIds

(***************************************************************************)
(* C22.  A PATCH /tasks/:id whose body has tags equal to the empty array   *)
(* deletes every task_tag row of the task: afterwards the task has no      *)
(* tags.  A POST /tasks whose body has tags equal to the empty array       *)
(* inserts no task_tag row and answers as it does when tags is omitted,    *)
(* with an empty tags array.                                               *)
(***************************************************************************)
C22_EmptyTagsClearsOrAddsNothing ==
    [][ /\ Handles("PATCH /tasks/:id", 200) /\ req'.body.hasTags /\ req'.body.tags = <<>>
            => /\ TagIdsOfTask(taskTag', req'.id) = <<>>
               /\ resp'.tasks[1].tags = <<>>
        /\ Handles("POST /tasks", 201) /\ req'.body.hasTags /\ req'.body.tags = <<>>
            => /\ taskTag' = taskTag
               /\ resp'.tasks[1].tags = <<>> ]_vars

\* A PATCH with tags [] answered 200 on a task an earlier request gave the
\* tags of a second task that still has them.
C22_Witness ==
    /\ Succeeded("PATCH /tasks/:id", 200)
    /\ req.body.hasTags /\ req.body.tags = <<>>
    /\ TagIdsOfTask(taskTag, req.id) = <<>>
    /\ resp.tasks[1].tags = <<>>
    /\ \E j \in 1..Len(taskTag) : taskTag[j].taskId \in StoredTaskIds \ {req.id}

(***************************************************************************)
(* C25.  In every response of GET /tasks, with or without the tag filter,  *)
(* each task id appears at most once, also when several task_tag rows      *)
(* attach the filter tag to the task.                                      *)
(***************************************************************************)
C25_ListedOnce ==
    Succeeded("GET /tasks", 200) =>
        \A i, j \in 1..Len(resp.tasks) :
            resp.tasks[i].row.id = resp.tasks[j].row.id => i = j

(***************************************************************************)
(* C23.  When an insert of the tag replacement of PATCH /tasks/:id fails,  *)
(* the request ends with the generic failure and nothing is rolled back:   *)
(* the task row has the new field values and the new updatedAt, the old    *)
(* task_tag rows of the task are gone, and of the new list only the ids    *)
(* before the failing one are attached.                                    *)
(***************************************************************************)
C23_PartialReplaceStays ==
    [][ Handles("PATCH /tasks/:id", 500) =>
            LET old == RowOf(task, req'.id)
                new == RowOf(task', req'.id)
                b == req'.body
            IN  /\ new.title = Patched(b.title, old.title)
                /\ new.status = Patched(b.status, old.status)
                /\ new.updatedAt = clock
                /\ TagIdsOfTask(taskTag', req'.id) = ExistingPrefix(b.tags)
                /\ Len(ExistingPrefix(b.tags)) < Len(b.tags) ]_vars

\* The failure came at the second id, later than the creation: the title
\* is new, the row of the first id is attached.
C23_Witness ==
    /\ Succeeded("PATCH /tasks/:id", 500)
    /\ RowOf(task, req.id).title = "b"
    /\ RowOf(task, req.id).createdAt < RowOf(task, req.id).updatedAt
    /\ Len(req.body.tags) = 2
    /\ TagIdsOfTask(taskTag, req.id) = <<req.body.tags[1]>>
    /\ Len(tag) = 2 /\ req.body.tags[1] = tag[2].id

(***************************************************************************)
(* C24.  PATCH /tasks/:id, whatever the body, the caller and the answer,   *)
(* never changes the id, userId or createdAt of the task it names, no      *)
(* field of any other task row, no task_tag row of another task, and no    *)
(* tag row; it neither adds nor removes a task row.                        *)
(***************************************************************************)
RowsOfOthers(taskTagT, taskId) == SelectSeq(taskTagT, LAMBDA r : r.taskId # taskId)

C24_PatchFrame ==
    [][ (req.op = "none" /\ req'.op = "PATCH /tasks/:id") =>
            /\ tag' = tag
            /\ Len(task') = Len(task)
            /\ \A i \in 1..Len(task) :
                   /\ task'[i].id = task[i].id
                   /\ task'[i].userId = task[i].userId
                   /\ task'[i].createdAt = task[i].createdAt
                   /\ task[i].id # req'.id => task'[i] = task[i]
            /\ RowsOfOthers(taskTag', req'.id) = RowsOfOthers(taskTag, req'.id) ]_vars

\* A PATCH answered 200 that gave the first task a new title, a new tag and
\* a new updatedAt, while the second task, of the other user, has its own
\* tag, title and time.
C24_Witness ==
    /\ Succeeded("PATCH /tasks/:id", 200)
    /\ Len(task) = 2 /\ req.id = task[1].id
    /\ task[1].title = "b" /\ task[1].updatedAt > task[1].createdAt
    /\ task[2].title = "a" /\ task[2].updatedAt = task[2].createdAt
    /\ task[2].userId # task[1].userId
    /\ TagIdsOfTask(taskTag, task[1].id) # <<>>
    /\ TagIdsOfTask(taskTag, task[2].id) # <<>>

(***************************************************************************)
(* C26.  The task object a successful POST /tasks or PATCH /tasks/:id      *)
(* returns has the same id, title, description, status, priority and tags  *)
(* as the element for that task in the response to a GET /tasks the same   *)
(* user sends right after it.                                              *)
(***************************************************************************)
ReadsBack ==
    /\ req.op \in {"POST /tasks", "PATCH /tasks/:id"}
    /\ resp.status \in {200, 201}
    /\ req'.op = "GET /tasks" /\ req'.session = req.session /\ req'.filter = Absent

SameTask(v, w) ==
    /\ v.row.id = w.row.id
    /\ v.row.title = w.row.title
    /\ v.row.description = w.row.description
    /\ v.row.status = w.row.status
    /\ v.row.priority = w.row.priority
    /\ v.tags = w.tags

C26_ReadBackAgrees ==
    [][ ReadsBack =>
            /\ resp'.status = 200
            /\ \E i \in 1..Len(resp'.tasks) : SameTask(resp.tasks[1], resp'.tasks[i])
            /\ \A i \in 1..Len(resp'.tasks) :
                   resp'.tasks[i].row.id = resp.tasks[1].row.id
                       => SameTask(resp.tasks[1], resp'.tasks[i]) ]_vars

\* The listing after a PATCH of the caller's second task that gave it a new
\* title and a tag; the caller's first task has the old title and no tag.
C26_Witness ==
    /\ Succeeded("GET /tasks", 200)
    /\ Len(resp.tasks) = 2
    /\ resp.tasks[1].row.title = "a" /\ resp.tasks[1].tags = <<>>
    /\ resp.tasks[2].row.title = "b" /\ resp.tasks[2].tags # <<>>
    /\ resp.tasks[2].row.updatedAt > resp.tasks[2].row.createdAt

(***************************************************************************)
(* C27.  As stated: the table's local tasks state is set on the initial    *)
(* load only; once the tasks query has had a later result, the local       *)
(* tasks state does not change any more.                                   *)
(***************************************************************************)
C27_TasksFromFirstLoadOnly ==
    [][ dataTable.dataUpdateCount > 1 => dataTable'.tasks = dataTable.tasks ]_vars

(***************************************************************************)
(* C27, amended.  The table's local tasks state is set by the effect on    *)
(* the query's data, which runs after every change of the data: once it    *)
(* has run, the local tasks state equals the tasks of the latest result of *)
(* the query, the first or a later one.                                    *)
(***************************************************************************)
C27_TasksFollowData ==
    (dataTable.hasData /\ ~dataTable.dataChanged) => dataTable.tasks = dataTable.data

\* The second result of the query, with one task where two were created,
\* has reached the local state.
C27_Witness ==
    /\ dataTable.dataUpdateCount = MaxFetches
    /\ ~dataTable.dataChanged
    /\ dataTable.tasks = dataTable.data
    /\ Len(dataTable.tasks) = 1
    /\ nextTask = 2 /\ Len(task) = 1

(***************************************************************************)
(* C28.  The rows the table shows for a selected tag id T, the tasks of    *)
(* the unfiltered listing whose tags have an entry with id T, are the      *)
(* tasks GET /tasks?tag=T returns to the same user in the same state of    *)
(* the database; with "all" or nothing selected the table shows every      *)
(* task.                                                                   *)
(***************************************************************************)
\* The table holds the unfiltered listing of the present database.
TableFresh ==
    /\ dataTable.hasData /\ ~dataTable.dataChanged
    /\ dataTable.tasks = tasksWithTags(SelectTasksOf(task, "A"), taskTag, tag)

C28_ClientFilterAsServer ==
    /\ dataTable.selectedTagId \in {"", "all"} => filteredTasks(dataTable) = dataTable.tasks
    /\ ( /\ TableFresh
         /\ Succeeded("GET /tasks", 200) /\ req.session = "A"
         /\ req.filter # Absent /\ req.filter = dataTable.selectedTagId )
           => Range(filteredTasks(dataTable)) = Range(resp.tasks)

\* The server was asked for the selected tag: the table shows one of its
\* two tasks, and the server lists that task once per join row.
C28_Witness ==
    /\ TableFresh
    /\ Succeeded("GET /tasks", 200) /\ req.session = "A"
    /\ req.filter # Absent /\ req.filter = dataTable.selectedTagId
    /\ Len(dataTable.tasks) = 2
    /\ Len(filteredTasks(dataTable)) = 1
    /\ Len(resp.tasks) = 2
    /\ Range(filteredTasks(dataTable)) = Range(resp.tasks)

(***************************************************************************)
(* C29.  In the tag checkboxes of the create form and of the edit drawer   *)
(* a toggle treats the selection as a set: from a selection without        *)
(* duplicates, a toggle either appends the id of a tag that was not        *)
(* selected or removes the id of a tag that was, and the selection has no  *)
(* duplicate afterwards.                                                   *)
(***************************************************************************)
NoDuplicates(selected) ==
    \A i, j \in 1..Len(selected) : selected[i] = selected[j] => i = j

SetLikeToggle(old, new) ==
    (NoDuplicates(old) /\ new # old) =>
        /\ NoDuplicates(new)
        /\ \E t \in SelectorTags :
               \/ t \notin Range(old) /\ new = Append(old, t)
               \/ t \in Range(old) /\ new = Without(old, t)

C29_TogglesAreSetLike ==
    [][ tagsSelector.mounted =>
            /\ SetLikeToggle(tagsSelector.tags, tagsSelector'.tags)
            /\ SetLikeToggle(tagsSelector.selectedTags, tagsSelector'.selectedTags) ]_vars

(***************************************************************************)
(* C30.  Once the effects of the theme provider have run, the document     *)
(* root has the class dark exactly when actualTheme is dark, actualTheme   *)
(* is the stored theme when that is light or dark and the system           *)
(* preference when it is system, and the storage key holds the stored      *)
(* theme.  A click on the theme toggle sets the theme to the opposite of   *)
(* actualTheme, never to system.                                           *)
(***************************************************************************)
ThemeSettled ==
    (themeProvider.mounted /\ ~themeProvider.effects) =>
        /\ themeProvider.dark <=> themeProvider.actualTheme = "dark"
        /\ themeProvider.actualTheme =
               IF themeProvider.theme = "system"
               THEN (IF themeProvider.matches THEN "dark" ELSE "light")
               ELSE themeProvider.theme
        /\ themeProvider.storage = themeProvider.theme

ClickSetsOpposite ==
    (themeProvider.mounted /\ themeProvider'.theme # themeProvider.theme) =>
        /\ themeProvider'.theme \in {"light", "dark"}
        /\ themeProvider'.theme # themeProvider.actualTheme

C30_ThemeState == []ThemeSettled /\ [][ClickSetsOpposite]_vars

\* The system prefers dark, the stored theme is light and the effects of
\* the change have run: light is drawn and stored, and no listener is left.
C30_Witness ==
    /\ themeProvider.mounted /\ ~themeProvider.effects
    /\ themeProvider.matches
    /\ themeProvider.theme = "light" /\ themeProvider.actualTheme = "light"
    /\ ~themeProvider.dark /\ themeProvider.storage = "light"
    /\ ~themeProvider.listening

====
